---- MODULE Spec2Model ----
(***************************************************************************)
(* A model of the stable-fluids Simulator of simulator.js: the boundary    *)
(* policy (setBoundary), the relaxation sweeps of diffuse, the clamped     *)
(* backtracking of advect, the constructor and the fixed pipeline of       *)
(* step() / vStep() / dStep().                                             *)
(*                                                                         *)
(* Numbers.  A field is a function on the (N+2) x (N+2) cells of the k = 1 *)
(* slice (the only slice the solver touches).  Field values are integers   *)
(* in a fixed unit; coordinates and velocities of advect are counted in    *)
(* quarters of a cell.                                                     *)
(***************************************************************************)
EXTENDS Integers, Sequences, FiniteSets, TLC

\* ------------------------------------------------------------------------
\* Program constants
\* ------------------------------------------------------------------------
N_SOLVER_ITERS == 20

BOUNDARY_MIRROR == 0

BOUNDARY_OPPOSE_X == 1

BOUNDARY_OPPOSE_Y == 2

\* this.v_src[X_DIM][5][25][1] = 500: the cell of the constant forcing term
ForcingI == 5

ForcingJ == 25

ForcingK == 1

\* number of velocity components (X, Y and the unused Z)
N_DIMS == 3

\* ------------------------------------------------------------------------
\* Bounds of the model
\* ------------------------------------------------------------------------
\* largest grid resolution of the boundary and advection specifications
MaxN == 3

\* slopes and offset of the initial field patterns range over -MaxCoef..MaxCoef
MaxCoef == 1

\* moderate velocities range over -MaxVel..MaxVel quarters of a unit
MaxVel == 3

\* a velocity far larger than any grid, in quarters of a unit
BigVel == 1000000

\* number of step() calls followed
MaxTicks == 2

\* grid resolutions tried beyond the smallest one that holds the forcing cell
MaxExtraN == 1

\* ------------------------------------------------------------------------
\* State
\* ------------------------------------------------------------------------
VARIABLES
    gridN,      \* grid.N[X_DIM] = grid.N[Y_DIM]: active cells per axis
    cur,        \* the field an operator writes (X of setBoundary)
    prev,       \* the field an operator samples
    velX,       \* vel[X_DIM], in quarters of a unit
    velY,       \* vel[Y_DIM], in quarters of a unit
    param,      \* timeStep and the diffusion constant, in tenths
    call,       \* the operator call in progress or just returned
    config,     \* the constructor's arguments N, timeStep, visc, diff
    ctor,       \* outcome of the constructor: "pending", "ok" or "TypeError"
    pc,         \* position of step() in its pipeline
    tick,       \* number of step() calls that have returned
    grid,       \* which buffer each of vel, prev_vel, dens, prev_dens names
    content,    \* what each buffer's active cells hold (their last writer)
    fresh,      \* whether setBoundary ran on a buffer after its last write
    clicked,    \* whether an interactive source is registered
    opLog,      \* the operator calls completed in the current step()
    last        \* the operands and border reads of the last operator pass

nvars == <<gridN, cur, prev, velX, velY, param, call>>

pvars == <<config, ctor, pc, tick, grid, content, fresh, clicked, opLog, last>>

vars == <<nvars, pvars>>

Idx(N) == 0 .. (N + 1)

Act(N) == 1 .. N

Cells(N) == Idx(N) \X Idx(N)

Zeros(N) == [c \in Cells(N) |-> 0]

\* ------------------------------------------------------------------------
\* setBoundary(X, mode = BOUNDARY_MIRROR)
\* ------------------------------------------------------------------------
\* The mode argument as passed: <<>> when the caller passes none, <<m>> otherwise.
ModeOf(arg) == IF arg = <<>> THEN BOUNDARY_MIRROR ELSE arg[1]

\* 0.5 * v
Half(v) == v \div 2

\* left and right edges: the loop over j
EdgesX(X, N, mode) ==
    [c \in Cells(N) |->
        IF c[2] \in Act(N) /\ c[1] = 0
        THEN (IF mode = BOUNDARY_OPPOSE_X THEN -X[<<1, c[2]>>] ELSE X[<<1, c[2]>>])
        ELSE IF c[2] \in Act(N) /\ c[1] = N + 1
        THEN (IF mode = BOUNDARY_OPPOSE_X THEN -X[<<N, c[2]>>] ELSE X[<<N, c[2]>>])
        ELSE X[c]]

\* top and bottom edges: the loop over i
EdgesY(X, N, mode) ==
    [c \in Cells(N) |->
        IF c[1] \in Act(N) /\ c[2] = 0
        THEN (IF mode = BOUNDARY_OPPOSE_Y THEN -X[<<c[1], 1>>] ELSE X[<<c[1], 1>>])
        ELSE IF c[1] \in Act(N) /\ c[2] = N + 1
        THEN (IF mode = BOUNDARY_OPPOSE_Y THEN -X[<<c[1], N>>] ELSE X[<<c[1], N>>])
        ELSE X[c]]

\* the four corner assignments, in the order of the code; none reads a corner
Corners(X, N) ==
    [c \in Cells(N) |->
        IF c = <<0, 0>> THEN Half(X[<<1, 0>>] + X[<<0, 1>>])
        ELSE IF c = <<0, N + 1>> THEN Half(X[<<1, N + 1>>] + X[<<0, N>>])
        ELSE IF c = <<N + 1, 0>> THEN Half(X[<<N, 0>>] + X[<<N + 1, 1>>])
        ELSE IF c = <<N + 1, N + 1>> THEN Half(X[<<N, N + 1>>] + X[<<N + 1, N>>])
        ELSE X[c]]

\* mutant: the left/right edges always mirror
setBoundary_NoOpposeX(X, N, arg) ==
    Corners(EdgesY(EdgesX(X, N, BOUNDARY_MIRROR), N, ModeOf(arg)), N)

\* mutant: the corners are averaged before the edges are updated
setBoundary_StaleCorners(X, N, arg) ==
    LET C == Corners(X, N)
        E == EdgesY(EdgesX(X, N, ModeOf(arg)), N, ModeOf(arg))
    IN  [c \in Cells(N) |->
            IF c[1] \in {0, N + 1} /\ c[2] \in {0, N + 1} THEN C[c] ELSE E[c]]

setBoundary(X, N, arg) ==
    Corners(EdgesY(EdgesX(X, N, ModeOf(arg)), N, ModeOf(arg)), N)

\* ------------------------------------------------------------------------
\* The constructor
\* ------------------------------------------------------------------------
\* zeros4d(3, N+2, N+2, N[Z_DIM]+2) with N[Z_DIM] = 1: the index ranges of
\* one component of v_src
SrcIdxI(N) == 0 .. (N + 1)

SrcIdxJ(N) == 0 .. (N + 1)

SrcIdxK == 0 .. 2

\* The store this.v_src[X_DIM][5][25][1] = 500.  Indexing an array outside
\* its range yields undefined, and indexing undefined throws a TypeError, so
\* the store succeeds only if [5] and [25] name allocated rows.
ForcingStoreOk(N) ==
    /\ ForcingI \in SrcIdxI(N)
    /\ ForcingJ \in SrcIdxJ(N)
    /\ ForcingK \in SrcIdxK

\* function Simulator(N, width, height, visc, diff, timeStep): the arguments
\* are stored as given, with no test on any of them, then the forcing term
\* is stored
ConstructOutcome(c) == IF ForcingStoreOk(c.N) THEN "ok" ELSE "TypeError"

\* ------------------------------------------------------------------------
\* Buffers of the grid
\* ------------------------------------------------------------------------
VelA == <<"velA_x", "velA_y", "velA_z">>

VelB == <<"velB_x", "velB_y", "velB_z">>

Buffers == {VelA[k] : k \in 1 .. N_DIMS} \cup {VelB[k] : k \in 1 .. N_DIMS}
              \cup {"densA", "densB"}

\* the grid as constructed
Grid0 == [vel |-> VelA, prev_vel |-> VelB, dens |-> "densA", prev_dens |-> "densB"]

\* grid.swapV(): current and previous velocity exchange places
swapV(g) == [g EXCEPT !.vel = g.prev_vel, !.prev_vel = g.vel]

\* grid.swapD(): current and previous density exchange places
swapD(g) == [g EXCEPT !.dens = g.prev_dens, !.prev_dens = g.dens]

\* the buffers grid.clearPrev() zeroes
PrevBuffers(g) == {g.prev_vel[k] : k \in 1 .. N_DIMS} \cup {g.prev_dens}

SetAll(f, S, v) == [b \in DOMAIN f |-> IF b \in S THEN v ELSE f[b]]

\* ------------------------------------------------------------------------
\* Positions of step()
\* ------------------------------------------------------------------------
P(at, dim, iter, ph) == [at |-> at, dim |-> dim, iter |-> iter, ph |-> ph]

Pos(at) == P(at, 0, 0, "")

ProjectEntry(at) == P(at, 0, 0, "div")

\* mutant: vStep returns without its second project
vStep_afterAdvect_noProject == Pos("d.addSource")

\* vStep: after the advect loop comes this.project(vel, prev_vel)
vStep_afterAdvect == ProjectEntry("v.project2")

\* the statement after the one at pc.  Every loop bound is a constant or
\* the grid size: no test reads a field.
Advance(p) ==
    CASE p.at = "clearPrev" -> Pos("v.addPrev")
      [] p.at = "v.addPrev" -> P("v.addSrc", p.dim, 0, "")
      [] p.at = "v.addSrc" ->
            IF p.dim + 1 < N_DIMS THEN P("v.addPrev", p.dim + 1, 0, "")
            ELSE Pos("v.swap1")
      [] p.at = "v.swap1" -> P("v.diffuse", 0, 0, "sweep")
      [] p.at \in {"v.diffuse", "d.diffuse"} /\ p.ph = "sweep" ->
            P(p.at, p.dim, p.iter, "bnd")
      [] p.at = "v.diffuse" /\ p.ph = "bnd" ->
            IF p.iter + 1 < N_SOLVER_ITERS THEN P(p.at, p.dim, p.iter + 1, "sweep")
            ELSE IF p.dim + 1 < N_DIMS THEN P(p.at, p.dim + 1, 0, "sweep")
            ELSE ProjectEntry("v.project1")
      [] p.at \in {"v.project1", "v.project2"} /\ p.ph = "div" ->
            P(p.at, 0, 0, "bndDiv")
      [] p.at \in {"v.project1", "v.project2"} /\ p.ph = "bndDiv" ->
            P(p.at, 0, 0, "bndP")
      [] p.at \in {"v.project1", "v.project2"} /\ p.ph = "bndP" ->
            P(p.at, 0, 0, "sweep")
      [] p.at \in {"v.project1", "v.project2"} /\ p.ph = "sweep" ->
            P(p.at, 0, p.iter, "bnd")
      [] p.at \in {"v.project1", "v.project2"} /\ p.ph = "bnd" ->
            IF p.iter + 1 < N_SOLVER_ITERS THEN P(p.at, 0, p.iter + 1, "sweep")
            ELSE P(p.at, 0, 0, "grad")
      [] p.at \in {"v.project1", "v.project2"} /\ p.ph = "grad" ->
            P(p.at, 0, 0, "bndX")
      [] p.at \in {"v.project1", "v.project2"} /\ p.ph = "bndX" ->
            P(p.at, 0, 0, "bndY")
      [] p.at = "v.project1" /\ p.ph = "bndY" -> Pos("v.swap2")
      [] p.at = "v.swap2" -> P("v.advect", 0, 0, "cells")
      [] p.at \in {"v.advect", "d.advect"} /\ p.ph = "cells" ->
            P(p.at, p.dim, 0, "bnd")
      [] p.at = "v.advect" /\ p.ph = "bnd" ->
            IF p.dim + 1 < N_DIMS THEN P(p.at, p.dim + 1, 0, "cells")
            ELSE vStep_afterAdvect
      [] p.at = "v.project2" /\ p.ph = "bndY" -> Pos("d.addSource")
      [] p.at = "d.addSource" -> Pos("d.swap1")
      [] p.at = "d.swap1" -> P("d.diffuse", 0, 0, "sweep")
      [] p.at = "d.diffuse" /\ p.ph = "bnd" ->
            IF p.iter + 1 < N_SOLVER_ITERS THEN P(p.at, 0, p.iter + 1, "sweep")
            ELSE Pos("d.swap2")
      [] p.at = "d.swap2" -> P("d.advect", 0, 0, "cells")
      [] p.at = "d.advect" /\ p.ph = "bnd" -> Pos("render")
      [] p.at = "render" -> Pos("idle")
      [] OTHER -> p

\* the operands of the operator call at pc, as vStep and dStep pass them
CurArg(g, p) == IF p.at \in {"v.diffuse", "v.advect"} THEN g.vel[p.dim + 1] ELSE g.dens

PrevArg(g, p) ==
    IF p.at \in {"v.diffuse", "v.advect"} THEN g.prev_vel[p.dim + 1] ELSE g.prev_dens

\* advect's vel argument is this.grid.vel in vStep and in dStep alike
VelArg(g, p) == g.vel

\* the operator call that returns when the pass at pc ends, if one does
Completes(p) ==
    \/ p.at \in {"clearPrev", "v.addPrev", "v.addSrc", "v.swap1", "v.swap2",
                 "d.addSource", "d.swap1", "d.swap2", "render"}
    \/ p.at \in {"v.diffuse", "d.diffuse"} /\ p.ph = "bnd" /\ p.iter + 1 = N_SOLVER_ITERS
    \/ p.at \in {"v.project1", "v.project2"} /\ p.ph = "bndY"
    \/ p.at \in {"v.advect", "d.advect"} /\ p.ph = "bnd"

OpName(p) ==
    CASE p.at = "clearPrev" -> "clearPrev"
      [] p.at \in {"v.addPrev", "v.addSrc"} -> "v.addSource"
      [] p.at \in {"v.swap1", "v.swap2"} -> "swapV"
      [] p.at = "v.diffuse" -> "v.diffuse"
      [] p.at \in {"v.project1", "v.project2"} -> "project"
      [] p.at = "v.advect" -> "v.advect"
      [] p.at = "d.addSource" -> "d.addSource"
      [] p.at \in {"d.swap1", "d.swap2"} -> "swapD"
      [] p.at = "d.diffuse" -> "d.diffuse"
      [] p.at = "d.advect" -> "d.advect"
      [] OTHER -> p.at

Logged(p) == IF Completes(p) THEN Append(opLog, OpName(p)) ELSE opLog

\* what a pass read: its operands, the contents of the velocity components
\* it read, the buffers whose border cells it read, and those among them
\* that had no setBoundary since their last write
Pass(op, c, pv, vel, borders) ==
    [op |-> op, cur |-> c, prev |-> pv, vel |-> vel,
     velContent |-> [k \in DOMAIN vel |-> content[vel[k]]],
     borderReads |-> borders,
     stale |-> {b \in borders : ~fresh[b]}]

NoPass == [op |-> "none", cur |-> "", prev |-> "", vel |-> <<>>, velContent |-> <<>>,
           borderReads |-> {}, stale |-> {}]

\* ------------------------------------------------------------------------
\* Actions
\* ------------------------------------------------------------------------
Signs == {-1, 0, 1}

\* the smallest resolution whose source array holds the forcing cell is
\* ForcingJ - 1; resolutions around it, the 4x4 grid, 1 and invalid ones
CtorNs == {-1, 0, 1, 4} \cup ((ForcingJ - 2) .. (ForcingJ - 1 + MaxExtraN))

Running == ctor = "ok" /\ pc.at # "idle"

new_Simulator ==
    /\ ctor = "pending"
    /\ ctor' = ConstructOutcome(config)
    /\ UNCHANGED <<nvars, config, pc, tick, grid, content, fresh, clicked, opLog, last>>

\* registerClick(x, y) between two ticks: the grid records an interactive source
registerClick ==
    /\ ctor = "ok" /\ pc.at = "idle" /\ ~clicked
    /\ tick < MaxTicks
    /\ clicked' = TRUE
    /\ UNCHANGED <<nvars, config, ctor, pc, tick, grid, content, fresh, opLog, last>>

\* step(): this.grid.clearPrev() zeroes the previous buffers; a registered
\* interactive source stays in prev_dens
step_clearPrev ==
    /\ ctor = "ok" /\ pc.at = "idle"
    /\ tick < MaxTicks
    /\ content' = [b \in Buffers |->
                      IF b = grid.prev_dens /\ clicked THEN "source"
                      ELSE IF b \in PrevBuffers(grid) THEN "zero"
                      ELSE content[b]]
    /\ fresh' = SetAll(fresh, PrevBuffers(grid), FALSE)
    /\ clicked' = FALSE
    /\ opLog' = <<"clearPrev">>
    /\ last' = NoPass
    /\ pc' = Advance(Pos("clearPrev"))
    /\ UNCHANGED <<nvars, config, ctor, tick, grid>>

\* addSource(dest, source): every cell of dest is written, none by setBoundary
addSource_call ==
    /\ Running /\ pc.at \in {"v.addPrev", "v.addSrc", "d.addSource"}
    /\ LET dest == IF pc.at = "d.addSource" THEN grid.dens ELSE grid.vel[pc.dim + 1]
       IN  /\ content' = [content EXCEPT ![dest] = "sourced"]
           /\ fresh' = [fresh EXCEPT ![dest] = FALSE]
    /\ last' = NoPass
    /\ opLog' = Logged(pc)
    /\ pc' = Advance(pc)
    /\ UNCHANGED <<nvars, config, ctor, tick, grid, clicked>>

swapV_call ==
    /\ Running /\ pc.at \in {"v.swap1", "v.swap2"}
    /\ grid' = swapV(grid)
    /\ last' = NoPass
    /\ opLog' = Logged(pc)
    /\ pc' = Advance(pc)
    /\ UNCHANGED <<nvars, config, ctor, tick, content, fresh, clicked>>

swapD_call ==
    /\ Running /\ pc.at \in {"d.swap1", "d.swap2"}
    /\ grid' = swapD(grid)
    /\ last' = NoPass
    /\ opLog' = Logged(pc)
    /\ pc' = Advance(pc)
    /\ UNCHANGED <<nvars, config, ctor, tick, content, fresh, clicked>>

\* diffuse: one sweep over the active cells of cur, which reads cur's four
\* neighbours (border cells for the outer cells) and prev's own cell
diffuse_sweep ==
    /\ Running /\ pc.at \in {"v.diffuse", "d.diffuse"} /\ pc.ph = "sweep"
    /\ LET c == CurArg(grid, pc)
       IN  /\ last' = Pass("diffuse", c, PrevArg(grid, pc), <<>>, {c})
           /\ content' = [content EXCEPT ![c] = "diffused"]
           /\ fresh' = [fresh EXCEPT ![c] = FALSE]
    /\ opLog' = Logged(pc)
    /\ pc' = Advance(pc)
    /\ UNCHANGED <<nvars, config, ctor, tick, grid, clicked>>

\* diffuse: this.setBoundary(cur, bMode) after the sweep
diffuse_setBoundary ==
    /\ Running /\ pc.at \in {"v.diffuse", "d.diffuse"} /\ pc.ph = "bnd"
    /\ fresh' = [fresh EXCEPT ![CurArg(grid, pc)] = TRUE]
    /\ last' = NoPass
    /\ opLog' = Logged(pc)
    /\ pc' = Advance(pc)
    /\ UNCHANGED <<nvars, config, ctor, tick, grid, content, clicked>>

\* project(vel, buf): p = buf[X_DIM], div = buf[Y_DIM]; the first loop reads
\* the neighbours of vel[X_DIM] and vel[Y_DIM] and writes div and p
project_divergence ==
    /\ Running /\ pc.at \in {"v.project1", "v.project2"} /\ pc.ph = "div"
    /\ LET p == grid.prev_vel[1]
           div == grid.prev_vel[2]
       IN  /\ last' = Pass("project.div", div, "", <<grid.vel[1], grid.vel[2]>>,
                           {grid.vel[1], grid.vel[2]})
           /\ content' = [content EXCEPT ![p] = "pressure", ![div] = "divergence"]
           /\ fresh' = [fresh EXCEPT ![p] = FALSE, ![div] = FALSE]
    /\ opLog' = Logged(pc)
    /\ pc' = Advance(pc)
    /\ UNCHANGED <<nvars, config, ctor, tick, grid, clicked>>

\* project: this.setBoundary(div); this.setBoundary(p); and the
\* this.setBoundary(p) after each sweep
project_setBoundaryBuf ==
    /\ Running /\ pc.at \in {"v.project1", "v.project2"}
    /\ pc.ph \in {"bndDiv", "bndP", "bnd"}
    /\ LET b == IF pc.ph = "bndDiv" THEN grid.prev_vel[2] ELSE grid.prev_vel[1]
       IN  fresh' = [fresh EXCEPT ![b] = TRUE]
    /\ last' = NoPass
    /\ opLog' = Logged(pc)
    /\ pc' = Advance(pc)
    /\ UNCHANGED <<nvars, config, ctor, tick, grid, content, clicked>>

\* project: one relaxation sweep of p, reading p's neighbours and div
project_sweep ==
    /\ Running /\ pc.at \in {"v.project1", "v.project2"} /\ pc.ph = "sweep"
    /\ LET p == grid.prev_vel[1]
       IN  /\ last' = Pass("project.sweep", p, grid.prev_vel[2], <<>>, {p})
           /\ fresh' = [fresh EXCEPT ![p] = FALSE]
    /\ opLog' = Logged(pc)
    /\ pc' = Advance(pc)
    /\ UNCHANGED <<nvars, config, ctor, tick, grid, content, clicked>>

\* project: the gradient of p is subtracted from vel[X_DIM] and vel[Y_DIM]
project_gradient ==
    /\ Running /\ pc.at \in {"v.project1", "v.project2"} /\ pc.ph = "grad"
    /\ LET p == grid.prev_vel[1]
       IN  last' = Pass("project.grad", grid.vel[1], p, <<>>, {p})
    /\ content' = [content EXCEPT ![grid.vel[1]] = "divfree", ![grid.vel[2]] = "divfree"]
    /\ fresh' = [fresh EXCEPT ![grid.vel[1]] = FALSE, ![grid.vel[2]] = FALSE]
    /\ opLog' = Logged(pc)
    /\ pc' = Advance(pc)
    /\ UNCHANGED <<nvars, config, ctor, tick, grid, clicked>>

\* project: setBoundary(vel[X_DIM], OPPOSE_X); setBoundary(vel[Y_DIM], OPPOSE_Y)
project_setBoundaryVel ==
    /\ Running /\ pc.at \in {"v.project1", "v.project2"} /\ pc.ph \in {"bndX", "bndY"}
    /\ LET b == IF pc.ph = "bndX" THEN grid.vel[1] ELSE grid.vel[2]
       IN  fresh' = [fresh EXCEPT ![b] = TRUE]
    /\ last' = NoPass
    /\ opLog' = Logged(pc)
    /\ pc' = Advance(pc)
    /\ UNCHANGED <<nvars, config, ctor, tick, grid, content, clicked>>

\* advect(cur, prev, vel, bMode): the loop over the active cells reads
\* vel[X_DIM] and vel[Y_DIM] at each cell, samples prev at four cells that
\* may be border cells, and writes cur
advect_cells ==
    /\ Running /\ pc.at \in {"v.advect", "d.advect"} /\ pc.ph = "cells"
    /\ LET c == CurArg(grid, pc)
           pv == PrevArg(grid, pc)
           v == VelArg(grid, pc)
       IN  /\ last' = Pass(OpName(pc), c, pv, <<v[1], v[2]>>, {pv})
           /\ content' = [content EXCEPT ![c] = "advected"]
           /\ fresh' = [fresh EXCEPT ![c] = FALSE]
    /\ opLog' = Logged(pc)
    /\ pc' = Advance(pc)
    /\ UNCHANGED <<nvars, config, ctor, tick, grid, clicked>>

\* advect: this.setBoundary(cur, bMode)
advect_setBoundary ==
    /\ Running /\ pc.at \in {"v.advect", "d.advect"} /\ pc.ph = "bnd"
    /\ fresh' = [fresh EXCEPT ![CurArg(grid, pc)] = TRUE]
    /\ last' = NoPass
    /\ opLog' = Logged(pc)
    /\ pc' = Advance(pc)
    /\ UNCHANGED <<nvars, config, ctor, tick, grid, content, clicked>>

\* step(): this.grid.render(ctx, false, true), then step() returns
step_render ==
    /\ Running /\ pc.at = "render"
    /\ tick' = tick + 1
    /\ last' = NoPass
    /\ opLog' = Logged(pc)
    /\ pc' = Advance(pc)
    /\ UNCHANGED <<nvars, config, ctor, grid, content, fresh, clicked>>

\* ------------------------------------------------------------------------
\* Specification Spec: construction, then step() called repeatedly
\* ------------------------------------------------------------------------
PipelineIdle ==
    /\ ctor = "pending"
    /\ pc = Pos("idle")
    /\ tick = 0
    /\ grid = Grid0
    /\ content = [b \in Buffers |-> "zero"]
    /\ fresh = [b \in Buffers |-> FALSE]
    /\ clicked = FALSE
    /\ opLog = <<>>
    /\ last = NoPass

\* the pipeline variables of the specifications that exercise one operator
PipelineOff ==
    /\ config = [N |-> 1, timeStep |-> 1, visc |-> 1, diff |-> 1]
    /\ PipelineIdle

NumericOff ==
    /\ gridN = 1
    /\ cur = [c \in {} |-> 0]
    /\ prev = [c \in {} |-> 0]
    /\ velX = [c \in {} |-> 0]
    /\ velY = [c \in {} |-> 0]
    /\ param = [dt10 |-> 1, k10 |-> 1]
    /\ call = [op |-> "none"]

Init ==
    /\ config \in [N : CtorNs, timeStep : Signs, visc : Signs, diff : Signs]
    /\ PipelineIdle
    /\ NumericOff

Next ==
    \/ new_Simulator
    \/ registerClick
    \/ step_clearPrev
    \/ addSource_call
    \/ swapV_call
    \/ swapD_call
    \/ diffuse_sweep
    \/ diffuse_setBoundary
    \/ project_divergence
    \/ project_setBoundaryBuf
    \/ project_sweep
    \/ project_gradient
    \/ project_setBoundaryVel
    \/ advect_cells
    \/ advect_setBoundary
    \/ step_render

Spec == Init /\ [][Next]_vars

\* ------------------------------------------------------------------------
\* Properties of construction and of the pipeline
\* ------------------------------------------------------------------------
InvalidConfig(c) == c.N <= 0 \/ c.timeStep <= 0 \/ c.visc < 0 \/ c.diff < 0

ValidConfig(c) == c.N >= 1 /\ c.timeStep > 0 /\ c.visc >= 0 /\ c.diff >= 0

\* C3: constructing a Simulator with an invalid configuration (N <= 0,
\* timeStep <= 0, visc < 0 or diff < 0) fails at construction: no Simulator
\* on which step() can be called is produced.
C3_InvalidConfigRejected ==
    (InvalidConfig(config) /\ ctor # "pending") => (ctor # "ok" /\ pc.at = "idle" /\ tick = 0)

\* C4: for every valid configuration (N >= 1, timeStep > 0, visc >= 0,
\* diff >= 0), the 4x4 grid included, construction completes without a
\* runtime error: the forcing cell lies inside the source array.
C4_ValidConfigConstructs ==
    (ValidConfig(config) /\ ctor # "pending") => (ctor = "ok" /\ ForcingStoreOk(config.N))

Rep(n, x) == [k \in 1 .. n |-> x]

\* the operator calls of one tick, in the order the claim gives them
ExpectedTick ==
    <<"clearPrev">> \o Rep(2 * N_DIMS, "v.addSource") \o <<"swapV">> \o
    Rep(N_DIMS, "v.diffuse") \o <<"project", "swapV">> \o
    Rep(N_DIMS, "v.advect") \o <<"project">> \o
    <<"d.addSource", "swapD", "d.diffuse", "swapD", "d.advect", "render">>

\* the number of calls up to and including vStep's second project
VelocityCalls == 4 * N_DIMS + 5

IsPrefix(s, t) == Len(s) <= Len(t) /\ s = SubSeq(t, 1, Len(s))

\* C5: every step() executes the same sequence of operator calls whatever
\* the fields hold: clearPrev; addSource, swapV, diffuse per component,
\* project, swapV, advect per component, project; addSource, swapD,
\* diffuse, swapD, advect; render.  Nothing is skipped, repeated or
\* reordered, and the density sub-step starts only after the second
\* projection has returned.
C5_FixedPipeline ==
    /\ IsPrefix(opLog, ExpectedTick)
    /\ (pc.at = "idle" /\ tick > 0) => opLog = ExpectedTick
    /\ (pc.at \in {"d.addSource", "d.swap1", "d.diffuse", "d.swap2", "d.advect", "render"})
          => (Len(opLog) >= VelocityCalls /\ opLog[VelocityCalls] = "project")

\* a validly configured Simulator whose second step() has returned with the
\* whole sequence run
C5_Witness ==
    /\ ValidConfig(config)
    /\ ctor = "ok"
    /\ pc.at = "idle"
    /\ tick >= 2
    /\ opLog = ExpectedTick
    /\ content[grid.dens] = "advected"
    /\ content[grid.prev_dens] = "diffused"

\* C7: in vStep the velocity field the advect calls backtrack through (their
\* vel argument) is the divergence-free field the preceding project
\* produced, not its pressure/divergence scratch or other stale contents.
C7_AdvectThroughProjectedVelocity ==
    (ValidConfig(config) /\ last.op = "v.advect") => last.velContent = <<"divfree", "divfree">>

\* C8: in every advect call of step() the destination cur is a buffer other
\* than the sampled prev and other than every component of vel the call
\* reads.
C8_AdvectBuffersDistinct ==
    (ValidConfig(config) /\ last.op \in {"v.advect", "d.advect"}) =>
        /\ last.cur # last.prev
        /\ \A k \in DOMAIN last.vel : last.vel[k] # last.cur

\* C9: whenever a diffuse or project sweep, the divergence or gradient
\* stencil of project, or the sampling of advect reads border cells of a
\* field, setBoundary has run on that field since the last write to its
\* active cells.
C9_BordersFreshWhenRead ==
    ValidConfig(config) => last.stale = {}

\* ------------------------------------------------------------------------
\* Specification SpecBoundary: setBoundary applied to arbitrary fields
\* ------------------------------------------------------------------------
Coefs == (-MaxCoef) .. MaxCoef

\* A field whose active cells follow scale*(a*i + b*j + c) and whose border
\* ring is off by `stale` from that pattern (a border not yet recomputed).
Pattern(N, scale, a, b, c, stale) ==
    [x \in Cells(N) |->
        IF x[1] \in Act(N) /\ x[2] \in Act(N)
        THEN scale * (a * x[1] + b * x[2] + c)
        ELSE scale * (a * x[1] + b * x[2] + c) + stale]

\* the mode arguments the solver passes: none, the three modes, and dim+1 = 3
ModeArgs == {<<>>, <<BOUNDARY_MIRROR>>, <<BOUNDARY_OPPOSE_X>>,
             <<BOUNDARY_OPPOSE_Y>>, <<3>>}

Idle == [op |-> "none"]

InitBoundary ==
    /\ PipelineOff
    /\ gridN \in 1 .. MaxN
    /\ \E a \in Coefs, b \in Coefs, c \in Coefs, stale \in {0, 14} :
          cur = Pattern(gridN, 2, a, b, c, stale)
    /\ prev = Zeros(gridN)
    /\ velX = Zeros(gridN)
    /\ velY = Zeros(gridN)
    /\ param = [dt10 |-> 1, k10 |-> 1]
    /\ call = Idle

CallSetBoundary ==
    \E arg \in ModeArgs :
        /\ cur' = setBoundary(cur, gridN, arg)
        /\ call' = [op |-> "setBoundary", arg |-> arg, pre |-> cur]
        /\ UNCHANGED <<pvars, gridN, prev, velX, velY, param>>

NextBoundary == CallSetBoundary

SpecBoundary == InitBoundary /\ [][NextBoundary]_vars

\* C1: after setBoundary(field, mode) returns, the left/right border cells
\* equal their nearest active neighbours (negated under OPPOSE_X), the
\* top/bottom border cells equal theirs (negated under OPPOSE_Y), a call
\* without a mode behaves as MIRROR, and no active cell has changed.
C1_BoundaryEdges ==
    (call.op = "setBoundary" /\ call.arg \in ModeArgs \ {<<3>>}) =>
        LET N == gridN
            sx == IF call.arg = <<BOUNDARY_OPPOSE_X>> THEN -1 ELSE 1
            sy == IF call.arg = <<BOUNDARY_OPPOSE_Y>> THEN -1 ELSE 1
        IN  /\ \A j \in Act(N) :
                  /\ cur[<<0, j>>] = sx * cur[<<1, j>>]
                  /\ cur[<<N + 1, j>>] = sx * cur[<<N, j>>]
            /\ \A i \in Act(N) :
                  /\ cur[<<i, 0>>] = sy * cur[<<i, 1>>]
                  /\ cur[<<i, N + 1>>] = sy * cur[<<i, N>>]
            /\ \A i \in Act(N), j \in Act(N) : cur[<<i, j>>] = call.pre[<<i, j>>]

\* an OPPOSE_X call on a grid of at least two cells that negated a non-zero
\* left edge and replaced a stale border value
C1_Witness ==
    /\ call.op = "setBoundary"
    /\ call.arg = <<BOUNDARY_OPPOSE_X>>
    /\ gridN >= 2
    /\ cur[<<1, 2>>] # 0
    /\ cur[<<0, 2>>] = -cur[<<1, 2>>]
    /\ cur[<<0, 2>>] # call.pre[<<0, 2>>]
    /\ cur[<<2, 0>>] = cur[<<2, 1>>]

\* C2: after setBoundary returns, whatever the mode (3 included), each corner
\* cell is the average of its two adjacent border cells as they now stand.
C2_CornersAverage ==
    call.op = "setBoundary" =>
        LET N == gridN
        IN  /\ 2 * cur[<<0, 0>>] = cur[<<1, 0>>] + cur[<<0, 1>>]
            /\ 2 * cur[<<0, N + 1>>] = cur[<<1, N + 1>>] + cur[<<0, N>>]
            /\ 2 * cur[<<N + 1, 0>>] = cur[<<N, 0>>] + cur[<<N + 1, 1>>]
            /\ 2 * cur[<<N + 1, N + 1>>] = cur[<<N, N + 1>>] + cur[<<N + 1, N>>]

\* a call with mode 3 (the Z component's dim+1) that replaced a stale corner
\* (0,0) by the average of its two neighbours on the border, both of which
\* mirror the non-zero active cell (1,1)
C2_Witness ==
    /\ call.op = "setBoundary"
    /\ call.arg = <<3>>
    /\ cur[<<1, 1>>] # 0
    /\ cur[<<1, 0>>] = cur[<<1, 1>>]
    /\ cur[<<0, 1>>] = cur[<<1, 1>>]
    /\ cur[<<0, 0>>] # call.pre[<<0, 0>>]
    /\ 2 * cur[<<0, 0>>] = cur[<<1, 0>>] + cur[<<0, 1>>]

\* ------------------------------------------------------------------------
\* advect(cur, prev, vel, bMode)
\* ------------------------------------------------------------------------
\* n cells, in quarters of a cell
Quarters(n) == 4 * n

\* i - dX * vel[X_DIM][i][j][1], in quarters (v is the velocity in quarters)
Backtrack(N, i, v) == Quarters(i) - N * v

\* mutant: the upper clamp is missing
Clamp_NoUpper(x, N) == IF x < 2 THEN 2 ELSE x

\* if (x < 0.5) x = 0.5;  if (x > N + 0.5) x = N + 0.5;
Clamp(x, N) ==
    LET lo == IF x < 2 THEN 2 ELSE x
    IN  IF lo > Quarters(N) + 2 THEN Quarters(N) + 2 ELSE lo

\* Math.floor of a coordinate given in quarters
Floor(x) == x \div 4

\* the sample cells and the interpolation weights (in quarters) of cell c
Sample(N, c, vx, vy) ==
    LET x == Clamp(Backtrack(N, c[1], vx[c]), N)
        i0 == Floor(x)
        y == Clamp(Backtrack(N, c[2], vy[c]), N)
        j0 == Floor(y)
        s1 == x - Quarters(i0)
        t1 == y - Quarters(j0)
    IN  [x |-> x, y |-> y, i0 |-> i0, i1 |-> i0 + 1, j0 |-> j0, j1 |-> j0 + 1,
         s1 |-> s1, s0 |-> Quarters(1) - s1, t1 |-> t1, t0 |-> Quarters(1) - t1]

Samples(N, vx, vy) == [c \in Act(N) \X Act(N) |-> Sample(N, c, vx, vy)]

\* whether all four reads of prev land on allocated cells; a read outside
\* the array yields undefined, whose indexing throws a TypeError
InRange(N, s) ==
    /\ s.i0 \in Idx(N) /\ s.i1 \in Idx(N)
    /\ s.j0 \in Idx(N) /\ s.j1 \in Idx(N)

\* the bilinear interpolation; the two quarter weights multiply to sixteenths
Interpolate(prevF, s) ==
    (s.s0 * (s.t0 * prevF[<<s.i0, s.j0>>] + s.t1 * prevF[<<s.i0, s.j1>>]) +
     s.s1 * (s.t0 * prevF[<<s.i1, s.j0>>] + s.t1 * prevF[<<s.i1, s.j1>>])) \div 16

advect(curF, prevF, vx, vy, N, bMode) ==
    LET S == Samples(N, vx, vy)
    IN  setBoundary([c \in Cells(N) |->
                        IF c \in DOMAIN S THEN Interpolate(prevF, S[c]) ELSE curF[c]],
                    N, <<bMode>>)

\* ------------------------------------------------------------------------
\* Specification SpecAdvect: advect applied to arbitrary velocity fields
\* ------------------------------------------------------------------------
VelVals == ((-MaxVel) .. MaxVel) \cup {-BigVel, BigVel}

InitAdvect ==
    /\ PipelineOff
    /\ gridN \in 1 .. MaxN
    /\ cur = Zeros(gridN)
    /\ \E a \in Coefs, b \in Coefs :
          prev = setBoundary(Pattern(gridN, 32, a, b, 0, 0), gridN, <<>>)
    /\ \E cx \in VelVals, cy \in VelVals, g \in {0, 1} :
          /\ velX = [c \in Cells(gridN) |-> cx + g * c[1]]
          /\ velY = [c \in Cells(gridN) |-> cy - g * c[2]]
    /\ param = [dt10 |-> 1, k10 |-> 1]
    /\ call = Idle

CallAdvect ==
    /\ call.op = "none"
    /\ \E bMode \in 0 .. 3 :
        LET S == Samples(gridN, velX, velY)
        IN  IF \A c \in DOMAIN S : InRange(gridN, S[c])
            THEN /\ cur' = advect(cur, prev, velX, velY, gridN, bMode)
                 /\ call' = [op |-> "advect", samp |-> S, outcome |-> "ok"]
            ELSE /\ cur' = cur
                 /\ call' = [op |-> "advect", samp |-> S, outcome |-> "TypeError"]
    /\ UNCHANGED <<pvars, gridN, prev, velX, velY, param>>

NextAdvect == CallAdvect

SpecAdvect == InitAdvect /\ [][NextAdvect]_vars

\* C10: for every active cell and every finite velocity, advect clamps the
\* backtracked coordinates into [0.5, N+0.5]; the sample indices satisfy
\* 0 <= i0 <= N, i1 = i0+1 <= N+1 (likewise j), so every read of prev is
\* inside 0..N+1; the weights lie in [0,1] and sum to 1 per axis; a
\* coordinate exactly at 0.5 or N+0.5 samples the border cell.
C10_AdvectInBounds ==
    call.op = "advect" =>
        /\ call.outcome = "ok"
        /\ \A c \in DOMAIN call.samp :
              LET s == call.samp[c]
                  N == gridN
              IN  /\ s.x \in 2 .. (Quarters(N) + 2)
                  /\ s.y \in 2 .. (Quarters(N) + 2)
                  /\ s.i0 \in 0 .. N /\ s.i1 = s.i0 + 1 /\ s.i1 <= N + 1
                  /\ s.j0 \in 0 .. N /\ s.j1 = s.j0 + 1 /\ s.j1 <= N + 1
                  /\ s.s0 \in 0 .. Quarters(1) /\ s.s1 \in 0 .. Quarters(1)
                  /\ s.t0 \in 0 .. Quarters(1) /\ s.t1 \in 0 .. Quarters(1)
                  /\ s.s0 + s.s1 = Quarters(1)
                  /\ s.t0 + s.t1 = Quarters(1)
                  /\ (s.x = 2 => s.i0 = 0)
                  /\ (s.x = Quarters(N) + 2 => s.i1 = N + 1)
                  /\ (s.y = 2 => s.j0 = 0)
                  /\ (s.y = Quarters(N) + 2 => s.j1 = N + 1)

\* a pass in which cell (1,1) had a huge positive X velocity and a huge
\* negative Y velocity: both coordinates were clamped, one to each end, and
\* the samples are the border cells
C10_Witness ==
    /\ call.op = "advect"
    /\ call.outcome = "ok"
    /\ velX[<<1, 1>>] >= BigVel
    /\ velY[<<1, 1>>] <= -BigVel
    /\ call.samp[<<1, 1>>].x = 2
    /\ call.samp[<<1, 1>>].i0 = 0
    /\ call.samp[<<1, 1>>].y = Quarters(gridN) + 2
    /\ call.samp[<<1, 1>>].j1 = gridN + 1

\* ------------------------------------------------------------------------
\* addSource, diffuse and dStep on numeric fields
\* ------------------------------------------------------------------------
\* Field values of this part are fixed-point numbers; every division rounds
\* down, so on non-negative fields a model value is a lower bound of the
\* real value the code computes.
Fixed(n) == 1000000 * n

\* dest[i][j][k] += timeStep * source[i][j][k], border cells included
addSource(dest, source, N, p) ==
    [c \in Cells(N) |-> dest[c] + (p.dt10 * source[c]) \div 10]

\* a = timeStep * k * N[X_DIM] * N[Y_DIM], in hundredths
DiffA(N, p) == p.dt10 * p.k10 * N * N

\* one assignment of the relaxation sweep, reading the partially updated cur
RelaxCell(curF, prevF, N, p, i, j) ==
    (100 * prevF[<<i, j>>]
       + DiffA(N, p) * (curF[<<i - 1, j>>] + curF[<<i + 1, j>>] +
                        curF[<<i, j - 1>>] + curF[<<i, j + 1>>]))
    \div (100 + 4 * DiffA(N, p))

\* Positions of dStep.  In this part cur is grid.dens and prev is
\* grid.prev_dens.
At(where) == [op |-> "dStep", at |-> where]

AtDiffuse(iter, i, j) == [op |-> "dStep", at |-> "diffuse", iter |-> iter, i |-> i, j |-> j]

\* this.addSource(this.grid.dens, this.grid.prev_dens)
dStep_addSource ==
    /\ call = At("addSource")
    /\ cur' = addSource(cur, prev, gridN, param)
    /\ call' = At("swapD")
    /\ UNCHANGED <<pvars, gridN, prev, velX, velY, param>>

\* this.grid.swapD(), before diffuse
dStep_swapD ==
    /\ call = At("swapD")
    /\ cur' = prev
    /\ prev' = cur
    /\ call' = AtDiffuse(0, 1, 1)
    /\ UNCHANGED <<pvars, gridN, velX, velY, param>>

\* diffuse: one cell of a sweep, ascending i then ascending j
diffuse_cell ==
    /\ call.op = "dStep" /\ call.at = "diffuse"
    /\ call.i <= gridN
    /\ cur' = [cur EXCEPT ![<<call.i, call.j>>] =
                   RelaxCell(cur, prev, gridN, param, call.i, call.j)]
    /\ call' = IF call.j < gridN
               THEN AtDiffuse(call.iter, call.i, call.j + 1)
               ELSE AtDiffuse(call.iter, call.i + 1, 1)
    /\ UNCHANGED <<pvars, gridN, prev, velX, velY, param>>

\* diffuse: the setBoundary that ends a sweep, and the loop test on iter
diffuse_endSweep ==
    /\ call.op = "dStep" /\ call.at = "diffuse"
    /\ call.i > gridN
    /\ cur' = setBoundary(cur, gridN, <<BOUNDARY_MIRROR>>)
    /\ call' = IF call.iter + 1 < N_SOLVER_ITERS
               THEN AtDiffuse(call.iter + 1, 1, 1)
               ELSE At("swapD2")
    /\ UNCHANGED <<pvars, gridN, prev, velX, velY, param>>

\* this.grid.swapD(), before advect
dStep_swapD2 ==
    /\ call = At("swapD2")
    /\ cur' = prev
    /\ prev' = cur
    /\ call' = At("advect")
    /\ UNCHANGED <<pvars, gridN, velX, velY, param>>

\* this.advect(this.grid.dens, this.grid.prev_dens, this.grid.vel, BOUNDARY_MIRROR)
dStep_advect ==
    /\ call = At("advect")
    /\ cur' = advect(cur, prev, velX, velY, gridN, BOUNDARY_MIRROR)
    /\ call' = At("done")
    /\ UNCHANGED <<pvars, gridN, prev, velX, velY, param>>

\* ------------------------------------------------------------------------
\* Specification SpecScenario: the density sub-step of the end-to-end
\* scenario (4x4 grid, unit density at (2,2), zero velocity, diffusion 0.1,
\* time step 0.1), from the entry of dStep.  The unit is either density
\* already in grid.dens or a source waiting in grid.prev_dens.  The
\* constructor itself fails on a 4x4 grid (ForcingStoreOk(4) is false), so
\* this follows dStep as it runs on such fields once they exist.
\* ------------------------------------------------------------------------
UnitAt(N, c0) == [c \in Cells(N) |-> IF c = c0 THEN Fixed(1) ELSE 0]

InitScenario ==
    /\ PipelineOff
    /\ gridN = 4
    /\ \E where \in {"dens", "prev_dens"} :
          /\ cur = IF where = "dens" THEN UnitAt(gridN, <<2, 2>>) ELSE Zeros(gridN)
          /\ prev = IF where = "dens" THEN Zeros(gridN) ELSE UnitAt(gridN, <<2, 2>>)
    /\ velX = Zeros(gridN)
    /\ velY = Zeros(gridN)
    /\ param = [dt10 |-> 1, k10 |-> 1]
    /\ call = At("addSource")

NextScenario ==
    \/ dStep_addSource
    \/ dStep_swapD
    \/ diffuse_cell
    \/ diffuse_endSweep
    \/ dStep_swapD2
    \/ dStep_advect

SpecScenario == InitScenario /\ [][NextScenario]_vars

Neighbours22 == {<<1, 2>>, <<3, 2>>, <<2, 1>>, <<2, 3>>}

FarCorners(N) == {<<1, 1>>, <<1, N>>, <<N, 1>>, <<N, N>>}

\* C6: in the end-to-end scenario, after the tick all four direct neighbours
\* of the source cell (2,2) have strictly positive density while the far
\* corner active cells still have density exactly 0.
C6_NeighboursPositiveCornersZero ==
    call = At("done") =>
        /\ \A c \in Neighbours22 : cur[c] > 0
        /\ \A c \in FarCorners(gridN) : cur[c] = 0

====
